---- MODULE Spec2Model ----
(***************************************************************************)
(* The Hacker News delta relay of illu.go: the process-wide set of story   *)
(* identifiers already sent (lastSentStoryIDs), and the SSE sessions       *)
(* (hnEventsHandler) that send an initial batch and then, on every tick,   *)
(* the stories that are new against that set.                              *)
(***************************************************************************)
EXTENDS Integers, Sequences, FiniteSets

(***************************************************************************)
(* Bounds of the model and constants of the program.                       *)
(***************************************************************************)
\* number of SSE clients that connect during a run
NumSessions == 2
\* identifiers the short upstream lists are made of
MaxID == 2
\* item fetches of one run that do not yield a well-formed story
MaxFaults == 2
\* identifiers and list length of the two-call exercise of the delta loop
TestMaxID == 3
TestMaxLen == 3
\* const initialStoriesLimit = 10
initialStoriesLimit == 10
\* const maxNewStoriesToSend = 5
maxNewStoriesToSend == 5

Sessions == 1..NumSessions

(***************************************************************************)
(* Sequences.                                                              *)
(***************************************************************************)
Range(q) == {q[k] : k \in 1..Len(q)}

Min(a, b) == IF a < b THEN a ELSE b

\* Truncate that forgets the limit
TruncateNothing(q, n) == q

\* q[:n] when len(q) > n, else q
Truncate(q, n) == SubSeq(q, 1, Min(Len(q), n))

Prefix(n) == [k \in 1..n |-> k]

SeqsUpTo(S, n) == UNION {[1..k -> S] : k \in 0..n}

NoDup(q) == \A a, b \in 1..Len(q) : q[a] = q[b] => a = b

RECURSIVE IsSubseq(_, _)
IsSubseq(p, q) ==
    IF p = <<>> THEN TRUE
    ELSE IF q = <<>> THEN FALSE
    ELSE IF Head(p) = Head(q) THEN IsSubseq(Tail(p), Tail(q))
    ELSE IsSubseq(p, Tail(q))

RECURSIVE Filter(_, _)
\* the elements of q that are not in S, in the order of q
Filter(q, S) ==
    IF q = <<>> THEN <<>>
    ELSE IF Head(q) \in S THEN Filter(Tail(q), S)
    ELSE <<Head(q)>> \o Filter(Tail(q), S)

RECURSIVE FirstOccurrences(_, _)
\* q with every repetition of an element removed, the first one kept
FirstOccurrences(q, S) ==
    IF q = <<>> THEN <<>>
    ELSE IF Head(q) \in S THEN FirstOccurrences(Tail(q), S)
    ELSE <<Head(q)>> \o FirstOccurrences(Tail(q), S \cup {Head(q)})

(***************************************************************************)
(* The upstream feed: what topstories.json and item/<id>.json may answer.  *)
(***************************************************************************)
\* lists of a quiet feed: every duplicate-free ranking of a few identifiers
ShortLists == {q \in SeqsUpTo(1..MaxID, MaxID) : NoDup(q)}

\* lists of a busy feed: rankings 1..n, some longer than the two limits
LongLists ==
    {Prefix(n) : n \in {3, 4, maxNewStoriesToSend + 1, initialStoriesLimit + 1,
                        initialStoriesLimit + maxNewStoriesToSend + 1}}

\* the runs checked: every session against a quiet feed, one session against
\* a busy one
Runs == {[feed |-> ShortLists, clients |-> 1..NumSessions],
         [feed |-> LongLists, clients |-> {1}]}

\* HNStory
HNStory(id, type, title, url) == [ID |-> id, Type |-> type, Title |-> title, URL |-> url]

\* the zero value of HNStory: what decoding a JSON null leaves in `story`
ZeroStory == HNStory(0, "", "", "")

\* the bodies item/<id>.json may hold: the item asked for, of any type, with or
\* without a title and a URL, or the JSON null of an item that does not exist
Bodies(id) ==
    {HNStory(id, ty, ti, u) : ty \in {"story", "job"}, ti \in {"", "t"}, u \in {"", "u"}}
        \cup {ZeroStory}

\* the outcomes of one item fetch: the GET fails, the body does not decode,
\* or `story` holds a decoded body
Responses(id) ==
    {[err |-> e, story |-> ZeroStory] : e \in {"fetch", "decode"}}
        \cup {[err |-> "none", story |-> b] : b \in Bodies(id)}

GoodResponse(id) == [err |-> "none", story |-> HNStory(id, "story", "t", "u")]

NoItem == [err |-> "none", story |-> ZeroStory]

\* one SSE message: its event: line, its id: line (0 when it has none) and,
\* for new-story, the story its data: line encodes
Event(kind, id, story) == [event |-> kind, id |-> id, data |-> story]

Msg(kind) == Event(kind, 0, ZeroStory)

(***************************************************************************)
(* State.                                                                  *)
(***************************************************************************)
VARIABLES
    ids,              \* lastSentStoryIDs.ids
    mutex,            \* lastSentStoryIDs.Mutex: the session holding it, 0 when free
    pc,               \* where each session's handler stands
    cancelled,        \* r.Context() of the session is done
    currentStoryIDs,  \* the list a session's running phase has fetched
    newStoryIDs,      \* the delta a session's running cycle computed (before truncation)
    storiesToFetch,   \* what is left of the slice the item loop ranges over
    item,             \* err and story of the session's latest item fetch
    out,              \* the messages the running phase has written to the session's sink
    faults,           \* item fetches so far that did not yield a well-formed story
    feed,             \* the lists topstories.json may answer in this run
    clients,          \* the sessions that connect in this run
    reportedBy,       \* history: the session whose delta first held the identifier, 0 if none
    delivered,        \* history: identifiers sent in a new-story message so far
    calls,            \* two-call exercise: the argument lists
    results           \* two-call exercise: the deltas returned so far

vars == <<ids, mutex, pc, cancelled, currentStoryIDs, newStoryIDs, storiesToFetch,
          item, out, faults, feed, clients, reportedBy, delivered, calls, results>>

\* what no step of a session changes: the run and the two-call exercise
env == <<feed, clients, calls, results>>

AllIDs == 1..(initialStoriesLimit + maxNewStoriesToSend + 1)

(***************************************************************************)
(* The pieces of the two send functions.                                   *)
(***************************************************************************)
\* skipItem without the test of the title and of the URL
skipItemTypeOnly(story) == story.Type # "story"

\* illu.go:225 and :318, the item the loop skips
skipItem(story) == story.Type # "story" \/ story.Title = "" \/ story.URL = ""

\* markSent that records nothing
markSentForgets(seen, id) == seen

\* illu.go:246
markSent(seen, id) == seen \cup {id}

RECURSIVE DeltaLoopNoCheck(_, _, _)
\* DeltaLoop without the `exists` test: every identifier of the list is new
DeltaLoopNoCheck(list, seen, acc) ==
    IF list = <<>> THEN [newStoryIDs |-> acc, ids |-> seen]
    ELSE DeltaLoopNoCheck(Tail(list), seen \cup {Head(list)}, Append(acc, Head(list)))

RECURSIVE DeltaLoopNoMark(_, _, _)
\* DeltaLoop without the insertion into the map
DeltaLoopNoMark(list, seen, acc) ==
    IF list = <<>> THEN [newStoryIDs |-> acc, ids |-> seen]
    ELSE DeltaLoopNoMark(Tail(list), seen,
                         IF Head(list) \notin seen THEN Append(acc, Head(list)) ELSE acc)

RECURSIVE DeltaLoopPrepend(_, _, _)
\* DeltaLoop that puts each new identifier in front of the delta
DeltaLoopPrepend(list, seen, acc) ==
    IF list = <<>> THEN [newStoryIDs |-> acc, ids |-> seen]
    ELSE DeltaLoopPrepend(Tail(list), seen \cup {Head(list)},
                          IF Head(list) \notin seen THEN <<Head(list)>> \o acc ELSE acc)

RECURSIVE DeltaLoopLastOnly(_, _, _)
\* DeltaLoop that keeps in the map the identifiers of the latest list only
DeltaLoopLastOnly(list, seen, acc) ==
    IF list = <<>> THEN [newStoryIDs |-> acc, ids |-> {}]
    ELSE LET d == DeltaLoopLastOnly(Tail(list), seen \cup {Head(list)},
                      IF Head(list) \notin seen THEN Append(acc, Head(list)) ELSE acc)
         IN [newStoryIDs |-> d.newStoryIDs, ids |-> d.ids \cup {Head(list)}]

RECURSIVE DeltaLoopMarksFirstM(_, _, _)
\* DeltaLoop that stops inserting once the delta holds maxNewStoriesToSend
DeltaLoopMarksFirstM(list, seen, acc) ==
    IF list = <<>> THEN [newStoryIDs |-> acc, ids |-> seen]
    ELSE LET id == Head(list) IN
         DeltaLoopMarksFirstM(Tail(list),
                              IF Len(acc) < maxNewStoriesToSend THEN seen \cup {id} ELSE seen,
                              IF id \notin seen THEN Append(acc, id) ELSE acc)

RECURSIVE DeltaLoop(_, _, _)
\* illu.go:276-283: the loop over currentStoryIDs, from the set `seen` and the
\* delta `acc` collected so far
DeltaLoop(list, seen, acc) ==
    IF list = <<>> THEN [newStoryIDs |-> acc, ids |-> seen]
    ELSE LET id == Head(list) IN
         DeltaLoop(Tail(list), seen \cup {id},
                   IF id \notin seen THEN Append(acc, id) ELSE acc)

\* noNewStories that takes a delta of one for none
noNewStoriesAtMostOne(delta) == Len(delta) <= 1

\* illu.go:285
noNewStories(delta) == Len(delta) = 0

(***************************************************************************)
(* Construction: func init() and a server nobody has connected to yet.     *)
(***************************************************************************)
Idle ==
    /\ ids = {}
    /\ mutex = 0
    /\ pc = [s \in Sessions |-> "start"]
    /\ cancelled = [s \in Sessions |-> FALSE]
    /\ currentStoryIDs = [s \in Sessions |-> <<>>]
    /\ newStoryIDs = [s \in Sessions |-> <<>>]
    /\ storiesToFetch = [s \in Sessions |-> <<>>]
    /\ item = [s \in Sessions |-> NoItem]
    /\ out = [s \in Sessions |-> <<>>]
    /\ faults = 0
    /\ reportedBy = [i \in AllIDs |-> 0]
    /\ delivered = {}

Init ==
    /\ Idle
    /\ \E run \in Runs : feed = run.feed /\ clients = run.clients
    /\ calls = <<>>
    /\ results = <<>>

(***************************************************************************)
(* hnEventsHandler.                                                        *)
(***************************************************************************)
\* a client connects: the headers and the `connected` message (illu.go:130-148)
Connect(s) ==
    /\ pc[s] = "start"
    /\ s \in clients
    /\ pc' = [pc EXCEPT ![s] = "initFetch"]
    /\ out' = [out EXCEPT ![s] = <<Msg("connected")>>]
    /\ UNCHANGED <<ids, mutex, cancelled, currentStoryIDs, newStoryIDs, storiesToFetch,
                   item, faults, reportedBy, delivered, env>>

\* the client goes away: ctx.Done() becomes ready, whatever the handler is doing
Disconnect(s) ==
    /\ pc[s] \notin {"start", "closed"}
    /\ ~cancelled[s]
    /\ cancelled' = [cancelled EXCEPT ![s] = TRUE]
    /\ UNCHANGED <<ids, mutex, pc, currentStoryIDs, newStoryIDs, storiesToFetch, item,
                   out, faults, reportedBy, delivered, env>>

\* select takes the ctx.Done() case (illu.go:162-164)
Exit(s) ==
    /\ pc[s] = "select"
    /\ cancelled[s]
    /\ pc' = [pc EXCEPT ![s] = "closed"]
    /\ UNCHANGED <<ids, mutex, cancelled, currentStoryIDs, newStoryIDs, storiesToFetch,
                   item, out, faults, reportedBy, delivered, env>>

(***************************************************************************)
(* sendInitialHackerNewsStories.                                           *)
(***************************************************************************)
\* InitFetchFail after which the handler gives the session up
InitFetchFailGivesUp(s) ==
    /\ pc[s] = "initFetch"
    /\ out' = [out EXCEPT ![s] = Append(@, Msg("error"))]
    /\ pc' = [pc EXCEPT ![s] = "closed"]
    /\ UNCHANGED <<ids, mutex, cancelled, currentStoryIDs, newStoryIDs, storiesToFetch,
                   item, faults, reportedBy, delivered, env>>

\* the list GET or its decoding fails: one `error` message, return (illu.go:175-190)
InitFetchFail(s) ==
    /\ pc[s] = "initFetch"
    /\ out' = [out EXCEPT ![s] = Append(@, Msg("error"))]
    /\ pc' = [pc EXCEPT ![s] = "initRet"]
    /\ UNCHANGED <<ids, mutex, cancelled, currentStoryIDs, newStoryIDs, storiesToFetch,
                   item, faults, reportedBy, delivered, env>>

\* the list GET answers and decodes (illu.go:175-190)
InitFetchOk(s) ==
    /\ pc[s] = "initFetch"
    /\ \E list \in feed : currentStoryIDs' = [currentStoryIDs EXCEPT ![s] = list]
    /\ pc' = [pc EXCEPT ![s] = "initLock"]
    /\ UNCHANGED <<ids, mutex, cancelled, newStoryIDs, storiesToFetch, item, out, faults,
                   reportedBy, delivered, env>>

\* InitLock that does not wait for the mutex
InitLockNoWait(s) ==
    /\ pc[s] = "initLock"
    /\ mutex' = s
    /\ storiesToFetch' =
           [storiesToFetch EXCEPT ![s] = Truncate(currentStoryIDs[s], initialStoriesLimit)]
    /\ pc' = [pc EXCEPT ![s] =
                 IF Truncate(currentStoryIDs[s], initialStoriesLimit) = <<>>
                 THEN "initRet" ELSE "initLoop"]
    /\ UNCHANGED <<ids, cancelled, currentStoryIDs, newStoryIDs, item, out, faults,
                   reportedBy, delivered, env>>

\* InitLock that leaves out of the slice the identifiers already in the map
InitLockFiltered(s) ==
    /\ pc[s] = "initLock"
    /\ mutex = 0
    /\ mutex' = s
    /\ storiesToFetch' =
           [storiesToFetch EXCEPT ![s] =
               Truncate(Filter(currentStoryIDs[s], ids), initialStoriesLimit)]
    /\ pc' = [pc EXCEPT ![s] =
                 IF Truncate(Filter(currentStoryIDs[s], ids), initialStoriesLimit) = <<>>
                 THEN "initRet" ELSE "initLoop"]
    /\ UNCHANGED <<ids, cancelled, currentStoryIDs, newStoryIDs, item, out, faults,
                   reportedBy, delivered, env>>

\* Lock, and the slice of at most initialStoriesLimit (illu.go:192-200)
InitLock(s) ==
    /\ pc[s] = "initLock"
    /\ mutex = 0
    /\ mutex' = s
    /\ storiesToFetch' =
           [storiesToFetch EXCEPT ![s] = Truncate(currentStoryIDs[s], initialStoriesLimit)]
    /\ pc' = [pc EXCEPT ![s] =
                 IF Truncate(currentStoryIDs[s], initialStoriesLimit) = <<>>
                 THEN "initRet" ELSE "initLoop"]
    /\ UNCHANGED <<ids, cancelled, currentStoryIDs, newStoryIDs, item, out, faults,
                   reportedBy, delivered, env>>

\* InitItem that marks the identifier of every iteration, sent or not
InitItemMarksAll(s) ==
    /\ pc[s] = "initLoop"
    /\ storiesToFetch[s] # <<>>
    /\ LET id == Head(storiesToFetch[s]) IN
       \E r \in Responses(id) :
          /\ r # GoodResponse(id) => faults < MaxFaults
          /\ faults' = IF r # GoodResponse(id) THEN faults + 1 ELSE faults
          /\ item' = [item EXCEPT ![s] = r]
          /\ ids' = ids \cup {id}
          /\ IF r.err # "none"
             THEN /\ out' = [out EXCEPT ![s] = Append(@, Event("story-error", id, ZeroStory))]
                  /\ UNCHANGED delivered
             ELSE IF skipItem(r.story)
             THEN UNCHANGED <<out, delivered>>
             ELSE /\ out' = [out EXCEPT ![s] = Append(@, Event("new-story", r.story.ID, r.story))]
                  /\ delivered' = delivered \cup {r.story.ID}
    /\ storiesToFetch' = [storiesToFetch EXCEPT ![s] = Tail(@)]
    /\ pc' = [pc EXCEPT ![s] = IF Tail(storiesToFetch[s]) = <<>> THEN "initRet" ELSE "initLoop"]
    /\ UNCHANGED <<mutex, cancelled, currentStoryIDs, newStoryIDs, reportedBy, env>>

\* one iteration of the loop over storiesToFetch (illu.go:202-247); json.Marshal
\* of an HNStory (ints and strings) cannot fail, so that branch is left out
InitItem(s) ==
    /\ pc[s] = "initLoop"
    /\ storiesToFetch[s] # <<>>
    /\ LET id == Head(storiesToFetch[s]) IN
       \E r \in Responses(id) :
          /\ r # GoodResponse(id) => faults < MaxFaults
          /\ faults' = IF r # GoodResponse(id) THEN faults + 1 ELSE faults
          /\ item' = [item EXCEPT ![s] = r]
          /\ IF r.err # "none"
             THEN /\ out' = [out EXCEPT ![s] = Append(@, Event("story-error", id, ZeroStory))]
                  /\ UNCHANGED <<ids, delivered, env>>
             ELSE IF skipItem(r.story)
             THEN UNCHANGED <<out, ids, delivered>>
             ELSE /\ out' = [out EXCEPT ![s] = Append(@, Event("new-story", r.story.ID, r.story))]
                  /\ ids' = markSent(ids, r.story.ID)
                  /\ delivered' = delivered \cup {r.story.ID}
    /\ storiesToFetch' = [storiesToFetch EXCEPT ![s] = Tail(@)]
    /\ pc' = [pc EXCEPT ![s] = IF Tail(storiesToFetch[s]) = <<>> THEN "initRet" ELSE "initLoop"]
    /\ UNCHANGED <<mutex, cancelled, currentStoryIDs, newStoryIDs, reportedBy, env>>

\* the function returns: the deferred Unlock when the lock was taken, then the
\* handler creates the ticker and enters its loop (illu.go:151-158, :193)
InitReturn(s) ==
    /\ pc[s] = "initRet"
    /\ mutex' = IF mutex = s THEN 0 ELSE mutex
    /\ pc' = [pc EXCEPT ![s] = "select"]
    /\ currentStoryIDs' = [currentStoryIDs EXCEPT ![s] = <<>>]
    /\ item' = [item EXCEPT ![s] = NoItem]
    /\ out' = [out EXCEPT ![s] = <<>>]
    /\ UNCHANGED <<ids, cancelled, newStoryIDs, storiesToFetch, faults, reportedBy,
                   delivered, env>>

(***************************************************************************)
(* sendDeltaHackerNewsStories.                                             *)
(***************************************************************************)
\* DeltaFetchFail without its return: the cycle goes on with the empty list
DeltaFetchFailGoesOn(s) ==
    /\ pc[s] = "select"
    /\ out' = [out EXCEPT ![s] = Append(@, Msg("error"))]
    /\ pc' = [pc EXCEPT ![s] = "deltaLock"]
    /\ UNCHANGED <<ids, mutex, cancelled, currentStoryIDs, newStoryIDs, storiesToFetch,
                   item, faults, reportedBy, delivered, env>>

\* select takes the ticker case and the list GET or its decoding fails: one
\* `error` message, return (illu.go:159-161, :256-271)
DeltaFetchFail(s) ==
    /\ pc[s] = "select"
    /\ out' = [out EXCEPT ![s] = Append(@, Msg("error"))]
    /\ pc' = [pc EXCEPT ![s] = "deltaRet"]
    /\ UNCHANGED <<ids, mutex, cancelled, currentStoryIDs, newStoryIDs, storiesToFetch,
                   item, faults, reportedBy, delivered, env>>

\* select takes the ticker case and the list GET answers and decodes
\* (illu.go:159-161, :256-271)
DeltaFetchOk(s) ==
    /\ pc[s] = "select"
    /\ \E list \in feed : currentStoryIDs' = [currentStoryIDs EXCEPT ![s] = list]
    /\ pc' = [pc EXCEPT ![s] = "deltaLock"]
    /\ UNCHANGED <<ids, mutex, cancelled, newStoryIDs, storiesToFetch, item, out, faults,
                   reportedBy, delivered, env>>

\* Lock, the delta loop, then either `no-new-data` and return, or the slice of
\* at most maxNewStoriesToSend (illu.go:273-297)
DeltaLock(s) ==
    /\ pc[s] = "deltaLock"
    /\ mutex = 0
    /\ mutex' = s
    /\ LET d == DeltaLoop(currentStoryIDs[s], ids, <<>>) IN
       /\ ids' = d.ids
       /\ newStoryIDs' = [newStoryIDs EXCEPT ![s] = d.newStoryIDs]
       /\ reportedBy' = [i \in AllIDs |->
                            IF i \in Range(d.newStoryIDs) /\ reportedBy[i] = 0
                            THEN s ELSE reportedBy[i]]
       /\ IF noNewStories(d.newStoryIDs)
          THEN /\ out' = [out EXCEPT ![s] = Append(@, Msg("no-new-data"))]
               /\ storiesToFetch' = [storiesToFetch EXCEPT ![s] = <<>>]
               /\ pc' = [pc EXCEPT ![s] = "deltaRet"]
          ELSE /\ out' = out
               /\ storiesToFetch' =
                      [storiesToFetch EXCEPT ![s] = Truncate(d.newStoryIDs, maxNewStoriesToSend)]
               /\ pc' = [pc EXCEPT ![s] =
                            IF Truncate(d.newStoryIDs, maxNewStoriesToSend) = <<>>
                            THEN "deltaRet" ELSE "deltaLoop"]
    /\ UNCHANGED <<cancelled, currentStoryIDs, item, faults, delivered, env>>

\* DeltaItem that gives the cycle up at the first item that fails
DeltaItemStopsOnError(s) ==
    /\ pc[s] = "deltaLoop"
    /\ storiesToFetch[s] # <<>>
    /\ LET id == Head(storiesToFetch[s]) IN
       \E r \in Responses(id) :
          /\ r # GoodResponse(id) => faults < MaxFaults
          /\ faults' = IF r # GoodResponse(id) THEN faults + 1 ELSE faults
          /\ item' = [item EXCEPT ![s] = r]
          /\ IF r.err # "none"
             THEN /\ out' = [out EXCEPT ![s] = Append(@, Event("story-error", id, ZeroStory))]
                  /\ storiesToFetch' = [storiesToFetch EXCEPT ![s] = <<>>]
                  /\ pc' = [pc EXCEPT ![s] = "deltaRet"]
                  /\ UNCHANGED delivered
             ELSE /\ storiesToFetch' = [storiesToFetch EXCEPT ![s] = Tail(@)]
                  /\ pc' = [pc EXCEPT ![s] =
                               IF Tail(storiesToFetch[s]) = <<>> THEN "deltaRet" ELSE "deltaLoop"]
                  /\ IF skipItem(r.story)
                     THEN UNCHANGED <<out, delivered>>
                     ELSE /\ out' = [out EXCEPT ![s] =
                                        Append(@, Event("new-story", r.story.ID, r.story))]
                          /\ delivered' = delivered \cup {r.story.ID}
    /\ UNCHANGED <<ids, mutex, cancelled, currentStoryIDs, newStoryIDs, reportedBy, env>>

\* one iteration of the loop over newStoryIDs (illu.go:299-337); as in the
\* initial loop, the json.Marshal branch is left out
DeltaItem(s) ==
    /\ pc[s] = "deltaLoop"
    /\ storiesToFetch[s] # <<>>
    /\ LET id == Head(storiesToFetch[s]) IN
       \E r \in Responses(id) :
          /\ r # GoodResponse(id) => faults < MaxFaults
          /\ faults' = IF r # GoodResponse(id) THEN faults + 1 ELSE faults
          /\ item' = [item EXCEPT ![s] = r]
          /\ IF r.err # "none"
             THEN /\ out' = [out EXCEPT ![s] = Append(@, Event("story-error", id, ZeroStory))]
                  /\ UNCHANGED delivered
             ELSE IF skipItem(r.story)
             THEN UNCHANGED <<out, delivered>>
             ELSE /\ out' = [out EXCEPT ![s] = Append(@, Event("new-story", r.story.ID, r.story))]
                  /\ delivered' = delivered \cup {r.story.ID}
    /\ storiesToFetch' = [storiesToFetch EXCEPT ![s] = Tail(@)]
    /\ pc' = [pc EXCEPT ![s] = IF Tail(storiesToFetch[s]) = <<>> THEN "deltaRet" ELSE "deltaLoop"]
    /\ UNCHANGED <<ids, mutex, cancelled, currentStoryIDs, newStoryIDs, reportedBy, env>>

\* the function returns: the deferred Unlock when the lock was taken, and the
\* handler is back at its select (illu.go:157-161, :274)
DeltaReturn(s) ==
    /\ pc[s] = "deltaRet"
    /\ mutex' = IF mutex = s THEN 0 ELSE mutex
    /\ pc' = [pc EXCEPT ![s] = "select"]
    /\ currentStoryIDs' = [currentStoryIDs EXCEPT ![s] = <<>>]
    /\ newStoryIDs' = [newStoryIDs EXCEPT ![s] = <<>>]
    /\ item' = [item EXCEPT ![s] = NoItem]
    /\ out' = [out EXCEPT ![s] = <<>>]
    /\ UNCHANGED <<ids, cancelled, storiesToFetch, faults, reportedBy, delivered, env>>

Next ==
    \/ \E s \in Sessions : Connect(s)
    \/ \E s \in Sessions : Disconnect(s)
    \/ \E s \in Sessions : Exit(s)
    \/ \E s \in Sessions : InitFetchFail(s)
    \/ \E s \in Sessions : InitFetchOk(s)
    \/ \E s \in Sessions : InitLock(s)
    \/ \E s \in Sessions : InitItem(s)
    \/ \E s \in Sessions : InitReturn(s)
    \/ \E s \in Sessions : DeltaFetchFail(s)
    \/ \E s \in Sessions : DeltaFetchOk(s)
    \/ \E s \in Sessions : DeltaLock(s)
    \/ \E s \in Sessions : DeltaItem(s)
    \/ \E s \in Sessions : DeltaReturn(s)

Spec == Init /\ [][Next]_vars

(***************************************************************************)
(* The delta loop on its own: two calls in a row on a fresh tracker, as a  *)
(* test of illu.go:276-283 would make them.                                *)
(***************************************************************************)
TestLists == SeqsUpTo(1..TestMaxID, TestMaxLen)

InitDiff ==
    /\ Idle
    /\ feed = {}
    /\ clients = {}
    /\ calls \in TestLists \X TestLists
    /\ results = <<>>

\* the next call: Lock, the loop over the argument, Unlock
Call ==
    /\ Len(results) < Len(calls)
    /\ LET d == DeltaLoop(calls[Len(results) + 1], ids, <<>>) IN
       /\ ids' = d.ids
       /\ results' = Append(results, d.newStoryIDs)
    /\ UNCHANGED <<mutex, pc, cancelled, currentStoryIDs, newStoryIDs, storiesToFetch,
                   item, out, faults, feed, clients, reportedBy, delivered, calls>>

NextDiff == Call

SpecDiff == InitDiff /\ [][NextDiff]_vars

(***************************************************************************)
(* What the messages of a phase say.                                       *)
(***************************************************************************)
IsNewStory(e) == e.event = "new-story"

IsStoryError(e) == e.event = "story-error"

IsError(e) == e.event = "error"

IsNoNewData(e) == e.event = "no-new-data"

\* the identifiers of the new-story messages of q, in the order written
SentIDs(q) == [k \in 1..Len(SelectSeq(q, IsNewStory)) |-> SelectSeq(q, IsNewStory)[k].id]

\* this step appends to the sink of s a new-story message for identifier i
NewStorySent(s, i) ==
    /\ Len(out'[s]) = Len(out[s]) + 1
    /\ SubSeq(out'[s], 1, Len(out[s])) = out[s]
    /\ out'[s][Len(out'[s])].event = "new-story"
    /\ out'[s][Len(out'[s])].id = i

\* this step is the Lock and delta loop of a cycle of s
DiffStep(s) == pc[s] = "deltaLock" /\ pc'[s] # "deltaLock"

\* s is in a periodic cycle whose list fetch succeeded, past its delta loop
InCycle(s) == mutex = s /\ pc[s] \in {"deltaLoop", "deltaRet"}

(***************************************************************************)
(* C4, C5: the delta loop called twice.                                    *)
(***************************************************************************)
\* C4: on a fresh tracker, for lists A and B with every element of A in B, the
\* delta of A and then of B gives, for B, exactly the identifiers of B that are
\* not in A, each once, in the order they (first) have in B.
C4_SecondDeltaIsDifference ==
    (Len(calls) = 2 /\ Len(results) = 2 /\ Range(calls[1]) \subseteq Range(calls[2]))
        => results[2] = FirstOccurrences(Filter(calls[2], Range(calls[1])), {})

C4_Witness ==
    /\ calls = << <<2>>, <<1, 2, 3>> >>
    /\ results = << <<2>>, <<1, 3>> >>

\* C5 as stated: for every list X, the delta of X twice in a row is X the
\* first time and empty the second time.
C5_Original ==
    (Len(calls) = 2 /\ calls[1] = calls[2])
        => /\ Len(results) >= 1 => results[1] = calls[1]
           /\ Len(results) = 2 => results[2] = <<>>

\* C5 amended: for every list X, the delta of X twice in a row on a fresh
\* tracker is, the first time, X with the repetitions of an identifier
\* removed (X itself when X repeats none) and, the second time, empty.
C5_TwiceInARow ==
    (Len(calls) = 2 /\ calls[1] = calls[2])
        => /\ Len(results) >= 1 =>
                /\ results[1] = FirstOccurrences(calls[1], {})
                /\ NoDup(calls[1]) => results[1] = calls[1]
           /\ Len(results) = 2 => results[2] = <<>>

C5_Witness ==
    /\ calls = << <<3, 1, 3>>, <<3, 1, 3>> >>
    /\ results = << <<3, 1>>, <<>> >>

(***************************************************************************)
(* C1, C2, C3: the shared set across sessions.                             *)
(***************************************************************************)
\* C1: whatever the sessions and the order of their cycles, the delta a cycle
\* computes holds no identifier that the delta of another cycle (of the same
\* or of another session) held before, and holds none twice.
C1_DeltaResultsDisjoint ==
    [][\A s \in Sessions :
          DiffStep(s) => /\ \A i \in Range(newStoryIDs'[s]) : reportedBy[i] = 0
                         /\ NoDup(newStoryIDs'[s])]_vars

\* a cycle of s found new identifiers, and its list also held an identifier
\* that the delta of another session had reported
C1_Witness ==
    \E s \in Sessions :
        /\ InCycle(s)
        /\ newStoryIDs[s] # <<>>
        /\ \E i \in Range(currentStoryIDs[s]) : reportedBy[i] \notin {0, s}

\* C2 as stated: no identifier is sent in a new-story message twice, initial
\* and periodic phases of all sessions counted together.
C2_Original ==
    [][\A s \in Sessions : \A i \in AllIDs : NewStorySent(s, i) => i \notin delivered]_vars

\* C2 amended: a periodic cycle never sends a new-story message for an
\* identifier that was sent before, in either phase, to any session; a message
\* for an identifier already sent is written by an initial phase only.
C2_NoRedeliveryByCycles ==
    [][\A s \in Sessions : \A i \in AllIDs :
          (NewStorySent(s, i) /\ i \in delivered) => pc[s] = "initLoop"]_vars

\* a cycle has sent a new story, and its list also held an identifier that had
\* been sent before and that it did not send again
C2_Witness ==
    \E s \in Sessions :
        /\ InCycle(s)
        /\ SentIDs(out[s]) # <<>>
        /\ \E i \in Range(currentStoryIDs[s]) \cap delivered : i \notin Range(SentIDs(out[s]))

\* C3: no step removes an identifier from the set, and marking an identifier
\* that is already in it leaves it as it was.
C3_SeenSetGrows ==
    [][/\ ids \subseteq ids'
       /\ \A s \in Sessions : \A i \in AllIDs :
             (NewStorySent(s, i) /\ i \in ids) => ids' = ids
       /\ \A s \in Sessions :
             (DiffStep(s) /\ Range(currentStoryIDs[s]) \subseteq ids) => ids' = ids]_vars

\* the set holds identifiers, one session has disconnected and left, and
\* another is returning from a cycle whose list fetch failed
C3_Witness ==
    /\ ids # {}
    /\ \E s, u \in Sessions :
          /\ pc[s] = "closed"
          /\ pc[u] = "deltaRet"
          /\ mutex # u

(***************************************************************************)
(* C6: the eligibility test.                                               *)
(***************************************************************************)
\* this step is one iteration of the item loop of s, in either phase
ItemStep(s) ==
    /\ pc[s] \in {"initLoop", "deltaLoop"}
    /\ storiesToFetch'[s] # storiesToFetch[s]

\* a story, with a title and a URL
WellFormed(story) == story.Type = "story" /\ story.Title # "" /\ story.URL # ""

\* C6: in both phases a new-story message is written only for a decoded item
\* that is a story with a title and a URL, and carries that item; for a decoded
\* item that is not, the iteration writes nothing to the client and the loop
\* goes on with the next identifier.
C6_OnlyEligibleItemsSent ==
    [][\A s \in Sessions :
          ItemStep(s) =>
              /\ (\E i \in AllIDs \cup {0} : NewStorySent(s, i)) =>
                     /\ item'[s].err = "none"
                     /\ WellFormed(item'[s].story)
                     /\ out'[s][Len(out'[s])].data = item'[s].story
              /\ (item'[s].err = "none" /\ ~WellFormed(item'[s].story)) =>
                     /\ out'[s] = out[s]
                     /\ storiesToFetch'[s] = Tail(storiesToFetch[s])
                     /\ pc'[s] = IF Tail(storiesToFetch[s]) # <<>> THEN pc[s]
                                 ELSE IF pc[s] = "initLoop" THEN "initRet" ELSE "deltaRet"
              /\ \A k \in 1..Len(out'[s]) :
                     IsNewStory(out'[s][k]) => WellFormed(out'[s][k].data)]_vars

\* a loop has just skipped a story without a title, having written nothing for
\* it, and has further identifiers to go
C6_Witness ==
    \E s \in Sessions :
        /\ mutex = s
        /\ pc[s] \in {"initLoop", "deltaLoop"}
        /\ item[s].err = "none"
        /\ item[s].story.Type = "story"
        /\ item[s].story.Title = ""
        /\ storiesToFetch[s] # <<>>
        /\ SelectSeq(out[s], IsStoryError) = <<>>

(***************************************************************************)
(* C7, C8: the list fetch fails.                                           *)
(***************************************************************************)
\* s is returning from a periodic cycle whose list fetch failed
FailedCycle(s) == pc[s] = "deltaRet" /\ mutex # s

\* s is returning from an initial phase whose list fetch failed
FailedInit(s) == pc[s] = "initRet" /\ mutex # s

\* C7: a periodic cycle whose list fetch fails writes one error message and
\* nothing else, its steps leave the set as it is, and it returns to the select
\* from which the next cycle starts; the delta of a cycle whose fetch succeeds
\* holds every identifier of its list that is not in the set.
C7_FailedCycle ==
    [][\A s \in Sessions :
          /\ (pc[s] = "select" /\ out'[s] # out[s]) =>
                 /\ out'[s] = <<Msg("error")>>
                 /\ pc'[s] = "deltaRet"
                 /\ ids' = ids /\ mutex' = mutex
          /\ (pc[s] \in {"deltaLock", "deltaLoop", "deltaRet"}
                  /\ SelectSeq(out[s], IsError) # <<>>) =>
                 /\ FailedCycle(s)
                 /\ out[s] = <<Msg("error")>>
                 /\ pc'[s] # pc[s] => (pc'[s] = "select" /\ ids' = ids /\ out'[s] = <<>>)
          /\ pc[s] = "select" => ENABLED DeltaFetchOk(s)
          /\ DiffStep(s) =>
                 Range(newStoryIDs'[s]) = Range(currentStoryIDs[s]) \ ids]_vars

\* a cycle whose list fetch failed is returning with its one error message,
\* while the set holds identifiers and not yet all of them
C7_Witness ==
    \E s \in Sessions :
        /\ FailedCycle(s)
        /\ out[s] = <<Msg("error")>>
        /\ ids # {}
        /\ \E list \in feed : ~(Range(list) \subseteq ids)

\* C8: an initial phase whose list fetch fails writes one error message, no
\* new-story and no story-error message, its steps leave the set as it is, and
\* the session goes on to its periodic cycles.
C8_FailedInit ==
    [][\A s \in Sessions :
          /\ (pc[s] = "initFetch" /\ out'[s] # out[s]) =>
                 /\ out'[s] = <<Msg("connected"), Msg("error")>>
                 /\ pc'[s] = "initRet"
                 /\ ids' = ids /\ mutex' = mutex
          /\ (pc[s] \in {"initLock", "initLoop", "initRet"}
                  /\ SelectSeq(out[s], IsError) # <<>>) =>
                 /\ FailedInit(s)
                 /\ out[s] = <<Msg("connected"), Msg("error")>>
                 /\ pc'[s] # pc[s] =>
                        /\ pc'[s] = "select" /\ ids' = ids
                        /\ (ENABLED DeltaFetchOk(s))'
                        /\ (ENABLED DeltaFetchFail(s))']_vars

\* the only session of the run is in its first cycle and everything of the
\* list is new to it although no item fetch has gone wrong: its initial list
\* fetch had failed
C8_Witness ==
    /\ clients = {1}
    /\ InCycle(1)
    /\ pc[1] = "deltaLoop"
    /\ faults = 0
    /\ delivered = {}
    /\ newStoryIDs[1] = currentStoryIDs[1]
    /\ newStoryIDs[1] # <<>>

(***************************************************************************)
(* C9, C10: what a periodic cycle sends.                                   *)
(***************************************************************************)
\* C9: in a cycle whose list fetch succeeded a no-new-data message is written
\* if and only if the delta is empty; it is then the one message of the cycle,
\* and the delta loop of that cycle left the set as it was.
C9_NoNewDataIffEmptyDelta ==
    [][\A s \in Sessions :
          /\ InCycle(s)' =>
                 /\ (SelectSeq(out'[s], IsNoNewData) # <<>>) <=> (newStoryIDs'[s] = <<>>)
                 /\ newStoryIDs'[s] = <<>> =>
                        (out'[s] = <<Msg("no-new-data")>> /\ pc'[s] = "deltaRet")
          /\ (DiffStep(s) /\ newStoryIDs'[s] = <<>>) => ids' = ids
          /\ (InCycle(s) /\ newStoryIDs[s] = <<>>) => ids' = ids]_vars

\* a cycle on a list that is not empty found nothing new and is returning with
\* its one no-new-data message
C9_Witness ==
    \E s \in Sessions :
        /\ InCycle(s)
        /\ pc[s] = "deltaRet"
        /\ currentStoryIDs[s] # <<>>
        /\ newStoryIDs[s] = <<>>
        /\ out[s] = <<Msg("no-new-data")>>

\* the first maxNewStoriesToSend elements of q
FirstM(q) ==
    [k \in 1..(IF Len(q) > maxNewStoriesToSend THEN maxNewStoriesToSend ELSE Len(q)) |-> q[k]]

\* the elements of FirstM(q) the item loop has gone through when `left` remain
Tried(q, left) == [k \in 1..(Len(FirstM(q)) - Len(left)) |-> q[k]]

\* C10: in every cycle the delta is in the rank order of the list, the loop
\* goes through the first maxNewStoriesToSend identifiers of the delta in that
\* order, and the new-story messages written so far are, in order, a
\* subsequence of the identifiers gone through: at most maxNewStoriesToSend
\* of them; an iteration whose item is fetched and is a well-formed story
\* writes the new-story message of its identifier, so that when all are,
\* exactly the first maxNewStoriesToSend of the delta are sent, in rank order.
C10_CycleSendsFirstMInOrder ==
    [][\A s \in Sessions :
          /\ InCycle(s)' =>
                 /\ IsSubseq(newStoryIDs'[s], currentStoryIDs'[s])
                 /\ Len(storiesToFetch'[s]) <= Len(FirstM(newStoryIDs'[s]))
                 /\ Tried(newStoryIDs'[s], storiesToFetch'[s]) \o storiesToFetch'[s]
                        = FirstM(newStoryIDs'[s])
                 /\ IsSubseq(SentIDs(out'[s]), Tried(newStoryIDs'[s], storiesToFetch'[s]))
                 /\ Len(SentIDs(out'[s])) <= maxNewStoriesToSend
                 /\ pc'[s] = "deltaRet" => storiesToFetch'[s] = <<>>
                 /\ (faults' = 0 /\ pc'[s] = "deltaRet") =>
                        SentIDs(out'[s]) = FirstM(newStoryIDs'[s])
          /\ (ItemStep(s) /\ pc[s] = "deltaLoop"
                  /\ item'[s].err = "none" /\ WellFormed(item'[s].story)) =>
                 NewStorySent(s, Head(storiesToFetch[s]))]_vars

\* a cycle whose delta was longer than maxNewStoriesToSend is returning, having
\* sent exactly the first maxNewStoriesToSend identifiers of the delta
C10_Witness ==
    \E s \in Sessions :
        /\ InCycle(s)
        /\ pc[s] = "deltaRet"
        /\ Len(newStoryIDs[s]) > maxNewStoriesToSend
        /\ SentIDs(out[s]) = FirstM(newStoryIDs[s])

(***************************************************************************)
(* C11: what an initial phase sends.                                       *)
(***************************************************************************)
\* s is in an initial phase whose list fetch succeeded, past its Lock
InInit(s) == mutex = s /\ pc[s] \in {"initLoop", "initRet"}

\* the first initialStoriesLimit elements of q
FirstK(q) ==
    [k \in 1..(IF Len(q) > initialStoriesLimit THEN initialStoriesLimit ELSE Len(q)) |-> q[k]]

\* the elements of FirstK(q) the item loop has gone through when `left` remain
TriedK(q, left) == [k \in 1..(Len(FirstK(q)) - Len(left)) |-> q[k]]

\* C11: an initial phase goes through the first initialStoriesLimit identifiers
\* of its list in rank order, whatever the set holds, and through nothing
\* beyond them; the new-story messages written so far are, in order, a
\* subsequence of the identifiers gone through, and an iteration whose item is
\* fetched and is a well-formed story writes the new-story message of its
\* identifier, be the identifier in the set or not.
C11_InitSendsFirstKInOrder ==
    [][\A s \in Sessions :
          /\ InInit(s)' =>
                 /\ Len(storiesToFetch'[s]) <= Len(FirstK(currentStoryIDs'[s]))
                 /\ TriedK(currentStoryIDs'[s], storiesToFetch'[s]) \o storiesToFetch'[s]
                        = FirstK(currentStoryIDs'[s])
                 /\ IsSubseq(SentIDs(out'[s]),
                             TriedK(currentStoryIDs'[s], storiesToFetch'[s]))
                 /\ pc'[s] = "initRet" => storiesToFetch'[s] = <<>>
                 /\ (faults' = 0 /\ pc'[s] = "initRet") =>
                        SentIDs(out'[s]) = FirstK(currentStoryIDs'[s])
          /\ (ItemStep(s) /\ pc[s] = "initLoop"
                  /\ item'[s].err = "none" /\ WellFormed(item'[s].story)) =>
                 NewStorySent(s, Head(storiesToFetch[s]))]_vars

\* an initial phase on a list longer than initialStoriesLimit is returning,
\* having sent exactly the first initialStoriesLimit identifiers of the list
C11_Witness ==
    \E s \in Sessions :
        /\ InInit(s)
        /\ pc[s] = "initRet"
        /\ Len(currentStoryIDs[s]) > initialStoriesLimit
        /\ SentIDs(out[s]) = FirstK(currentStoryIDs[s])

(***************************************************************************)
(* C12, C13: cancellation and the closed transport.                        *)
(***************************************************************************)
\* this step of s is a GET of the list: the one of the initial phase, or the
\* one of a cycle the select has let through
ListCall(s) ==
    \/ pc[s] = "initFetch" /\ pc'[s] # "initFetch"
    \/ pc[s] = "select" /\ pc'[s] \in {"deltaLock", "deltaRet"}

\* this step of s writes an event to its ResponseWriter
Wrote(s) == Len(out'[s]) > Len(out[s])

\* C12: once the context of a session is cancelled, the session makes no
\* further GET, of the list or of an item, and writes no further event.
C12_Original ==
    [][\A s \in Sessions :
          cancelled[s] => ~ListCall(s) /\ ~ItemStep(s) /\ ~Wrote(s)]_vars

\* C13: a write on a connection the client has closed ends the phase at that
\* write: the loop does not go on to a later identifier, the function returns
\* (or the handler is gone).
C13_Original ==
    [][\A s \in Sessions :
          (cancelled[s] /\ Wrote(s)) =>
              pc'[s] \in {"initRet", "deltaRet", "closed"}]_vars

(***************************************************************************)
(* C14: the timeouts of the GETs, and the release of the mutex.            *)
(*                                                                         *)
(* The GETs made through `client` (illu.go:173, :254: the two list GETs    *)
(* and the item GETs of the initial phase) return after at most ten        *)
(* seconds, with an answer or with an error, whatever the upstream does.   *)
(* The item GET of a cycle is http.Get (illu.go:301), the default client,  *)
(* which has no timeout: it returns only if the upstream answers or the    *)
(* connection breaks.  So the steps of a session that the code itself      *)
(* brings about are all but DeltaItem.                                     *)
(***************************************************************************)
\* all sessions connect, on the short lists
InitLive ==
    /\ Idle
    /\ feed = ShortLists
    /\ clients = Sessions
    /\ calls = <<>>
    /\ results = <<>>

\* a step of s that happens within bounded time once it can
Bounded(s) ==
    \/ Exit(s)
    \/ InitFetchFail(s)
    \/ InitFetchOk(s)
    \/ InitItem(s)
    \/ InitReturn(s)
    \/ DeltaFetchFail(s)
    \/ DeltaFetchOk(s)
    \/ DeltaReturn(s)

\* a goroutine that waits in Lock is handed the mutex (sync.Mutex leaves no
\* waiter behind for ever), provided the mutex is unlocked again and again
Fairness ==
    \A s \in Sessions :
        /\ WF_vars(Bounded(s))
        /\ SF_vars(InitLock(s))
        /\ SF_vars(DeltaLock(s))

SpecLive == InitLive /\ [][Next]_vars /\ Fairness

\* C14: every phase a session starts completes, and a session that has
\* locked the mutex unlocks it.
C14_Original ==
    \A s \in Sessions :
        /\ (mutex = s) ~> (mutex # s)
        /\ (pc[s] \in {"initFetch", "initLoop", "initRet", "deltaLoop", "deltaRet"})
               ~> (pc[s] \in {"select", "closed"})

(***************************************************************************)
(* C15: an item that fails in a cycle.                                     *)
(***************************************************************************)
\* this step appends to the sink of s one story-error message for identifier i
StoryErrorSent(s, i) ==
    /\ Len(out'[s]) = Len(out[s]) + 1
    /\ SubSeq(out'[s], 1, Len(out[s])) = out[s]
    /\ out'[s][Len(out'[s])].event = "story-error"
    /\ out'[s][Len(out'[s])].id = i

\* C15: an iteration of a cycle whose item GET or decoding fails writes one
\* story-error message for its identifier and the loop goes on with the
\* identifiers that remain, in their order; the identifier is in the set
\* since the delta loop of this cycle, it is not looked at again in this
\* cycle, and the delta of no later cycle, of any session, holds an
\* identifier that a delta loop has reported before.
C15_FailedItemReportedNotRetried ==
    [][\A s \in Sessions :
          /\ (ItemStep(s) /\ pc[s] = "deltaLoop" /\ item'[s].err # "none") =>
                 /\ StoryErrorSent(s, Head(storiesToFetch[s]))
                 /\ storiesToFetch'[s] = Tail(storiesToFetch[s])
                 /\ pc'[s] = IF storiesToFetch'[s] = <<>> THEN "deltaRet" ELSE "deltaLoop"
                 /\ Head(storiesToFetch[s]) \in ids'
                 /\ reportedBy'[Head(storiesToFetch[s])] = s
                 /\ Head(storiesToFetch[s]) \notin Range(storiesToFetch'[s])
                 /\ delivered' = delivered
          /\ pc'[s] = "deltaLoop" =>
                 /\ NoDup(storiesToFetch'[s])
                 /\ \A i \in Range(storiesToFetch'[s]) : i \in ids' /\ reportedBy'[i] = s
          /\ DiffStep(s) =>
                 \A i \in Range(newStoryIDs'[s]) \cup Range(storiesToFetch'[s]) :
                     reportedBy[i] = 0 /\ i \in Range(newStoryIDs'[s])]_vars

\* in a cycle the item of one identifier has failed and the item of a later
\* identifier has been sent
C15_Witness ==
    \E s \in Sessions :
        /\ InCycle(s)
        /\ \E k, l \in 1..Len(out[s]) :
              /\ k < l
              /\ IsStoryError(out[s][k])
              /\ IsNewStory(out[s][l])
              /\ out[s][k].id \in ids
              /\ out[s][k].id \notin delivered

(***************************************************************************)
(* C16: what an initial phase puts in the set.                             *)
(***************************************************************************)
\* C16 as stated: when an initial phase whose list GET succeeded returns,
\* every one of the first initialStoriesLimit identifiers of its list is in
\* the set, the ones whose item failed or was skipped included.
C16_Original ==
    \A s \in Sessions :
        (InInit(s) /\ pc[s] = "initRet") =>
            Range(FirstK(currentStoryIDs[s])) \subseteq ids

\* C16, amended: an iteration of the initial loop puts its identifier in the
\* set exactly when it writes the new-story message of that identifier; an
\* iteration whose item fails or is skipped leaves the set as it was.  So
\* when the phase returns, the identifiers it has sent are in the set, and
\* the others of the first initialStoriesLimit are in it only if they were
\* before.
C16_InitMarksWhatItSends ==
    [][\A s \in Sessions :
          /\ (ItemStep(s) /\ pc[s] = "initLoop") =>
                 ids' = IF NewStorySent(s, Head(storiesToFetch[s]))
                        THEN ids \cup {Head(storiesToFetch[s])}
                        ELSE ids
          /\ (pc[s] = "initLock" /\ pc'[s] # "initLock") => ids' = ids
          /\ InInit(s)' => Range(SentIDs(out'[s])) \subseteq ids']_vars

\* an initial phase returns, having sent one identifier, which is in the set,
\* and having failed on or skipped another of its first identifiers, which is
\* not
C16_Witness ==
    \E s \in Sessions :
        /\ InInit(s)
        /\ pc[s] = "initRet"
        /\ SentIDs(out[s]) # <<>>
        /\ Range(SentIDs(out[s])) \subseteq ids
        /\ \E i \in Range(FirstK(currentStoryIDs[s])) : i \notin ids

(***************************************************************************)
(* C17: what a cycle puts in the set.                                      *)
(***************************************************************************)
\* C17: the Lock-and-delta-loop step of a cycle leaves every identifier of
\* the fetched list in the set, and its delta is made of exactly the
\* identifiers of the list that were not in the set before; through the item
\* loop and until the cycle returns the whole list stays in the set, the
\* identifiers beyond maxNewStoriesToSend and those whose item failed or was
\* skipped included, though nothing was sent for them; and an iteration of a
\* cycle sends an identifier only if it is the one at the head of what is left
\* of this cycle's own delta.  So an identifier that is in the set when a
\* cycle locks, sent or not, is sent by that cycle to nobody.
C17_CycleMarksWholeList ==
    [][\A s \in Sessions :
          /\ DiffStep(s) =>
                 /\ ids' = ids \cup Range(currentStoryIDs[s])
                 /\ Range(newStoryIDs'[s]) = Range(currentStoryIDs[s]) \ ids
          /\ InCycle(s)' => Range(currentStoryIDs'[s]) \subseteq ids'
          /\ \A i \in AllIDs :
                 (pc[s] = "deltaLoop" /\ NewStorySent(s, i)) =>
                     /\ i = Head(storiesToFetch[s])
                     /\ i \in Range(newStoryIDs[s])
                     /\ i \in ids]_vars

\* a cycle returns whose delta was longer than maxNewStoriesToSend: an
\* identifier cut off by the truncation is in the set and was sent to nobody
C17_Witness ==
    \E s \in Sessions :
        /\ InCycle(s)
        /\ pc[s] = "deltaRet"
        /\ Len(newStoryIDs[s]) > maxNewStoriesToSend
        /\ \E i \in Range(newStoryIDs[s]) :
              /\ i \notin Range(FirstM(newStoryIDs[s]))
              /\ i \in ids
              /\ i \notin delivered

(***************************************************************************)
(* C18: what has been sent is in the set.                                  *)
(***************************************************************************)
\* C18: whenever the mutex is free, every identifier sent as new-story to
\* any session, by an initial phase or by a cycle, is in the set; and in a
\* cycle past its delta loop, the only identifiers of its delta that have
\* been sent to anybody are the ones this cycle has sent itself: the delta
\* held no identifier sent before, by an initial phase or otherwise.
C18_DeliveredAreSeen ==
    /\ mutex = 0 => delivered \subseteq ids
    /\ \A s \in Sessions :
          InCycle(s) =>
              Range(newStoryIDs[s]) \cap delivered \subseteq Range(SentIDs(out[s]))

\* the mutex is free, identifiers have been sent and others are in the set
\* unsent, and a cycle is about to lock with a list that holds an identifier
\* already sent
C18_Witness ==
    /\ mutex = 0
    /\ delivered # {}
    /\ delivered # ids
    /\ \E s \in Sessions :
          /\ pc[s] = "deltaLock"
          /\ Range(currentStoryIDs[s]) \cap delivered # {}
          /\ ~(Range(currentStoryIDs[s]) \subseteq ids)

(***************************************************************************)
(* C19: the locked region.                                                 *)
(***************************************************************************)
\* the last message this step has written to the sink of s is one of those
\* written inside the locked region
WroteItemEvent(s) ==
    /\ Wrote(s)
    /\ out'[s][Len(out'[s])].event \in {"new-story", "story-error", "no-new-data"}

\* C19: a session is in an item loop only while it holds the mutex, and
\* holds the mutex only from its Lock, the step after its list GET, to the
\* return of that phase; the mutex goes from a holder to nobody, at that
\* return, and never from one holder to another.  Every iteration of an item
\* loop, every change of the set, and every new-story, story-error and
\* no-new-data write is a step of the session that holds the mutex.  So at
\* most one session is in an item loop, and between the Lock and the return
\* of one session no other session makes any of these steps.
C19_LockedRegion ==
    [][/\ \A s \in Sessions :
             /\ pc'[s] \in {"initLoop", "deltaLoop"} => mutex' = s
             /\ mutex' = s => pc'[s] \in {"initLoop", "initRet", "deltaLoop", "deltaRet"}
             /\ (mutex # s /\ mutex' = s) =>
                    /\ mutex = 0
                    /\ pc[s] \in {"initLock", "deltaLock"}
             /\ (mutex = s /\ mutex' # s) =>
                    /\ mutex' = 0
                    /\ pc[s] \in {"initRet", "deltaRet"}
                    /\ pc'[s] = "select"
             /\ ItemStep(s) => mutex = s /\ mutex' = s
             /\ WroteItemEvent(s) => mutex' = s
       /\ ids' # ids => \E s \in Sessions : mutex' = s /\ (ItemStep(s) \/ DiffStep(s))
       /\ \A s, u \in Sessions :
             (s # u /\ pc'[s] \in {"initLoop", "deltaLoop"}) =>
                 pc'[u] \notin {"initLoop", "deltaLoop"}]_vars

\* a session is in the item loop of a cycle, having written a message, while
\* another session, its list fetched, waits at the Lock of its initial phase
C19_Witness ==
    \E s, u \in Sessions :
        /\ s # u
        /\ mutex = s
        /\ pc[s] = "deltaLoop"
        /\ out[s] # <<>>
        /\ pc[u] = "initLock"

(***************************************************************************)
(* C20: one session and an upstream list that does not change.             *)
(***************************************************************************)
\* a server just started, one client, and an upstream whose list is the
\* same at every GET
InitSame ==
    /\ Idle
    /\ \E list \in LongLists \cup ShortLists : feed = {list}
    /\ clients = {1}
    /\ calls = <<>>
    /\ results = <<>>

SpecSame == InitSame /\ [][Next]_vars

\* the list of the upstream of SpecSame
TheList == CHOOSE list \in feed : TRUE

\* no delta loop has found a new identifier yet
NoneReported == \A i \in AllIDs : reportedBy[i] = 0

\* the elements of q at the ranks beyond initialStoriesLimit
BeyondK(q) == {q[k] : k \in (initialStoriesLimit + 1)..Len(q)}

\* C20: with one session and the same list at every GET, the first delta
\* loop that runs finds the set holding exactly what the initial phase has
\* sent, all of it among the first initialStoriesLimit of the list: its delta
\* is the list without the identifiers sent, in list order, that is every rank
\* beyond initialStoriesLimit and every one of the first initialStoriesLimit
\* that was not sent; when the list is longer than initialStoriesLimit that
\* delta is not empty, no no-new-data is written and the item loop is given
\* its first maxNewStoriesToSend.  After a cycle past its delta loop the
\* whole list is in the set, and the delta loop of every later cycle finds
\* nothing and writes no-new-data only.
C20_FirstAndSecondCycle ==
    [][\A s \in Sessions :
          /\ (DiffStep(s) /\ NoneReported) =>
                 /\ currentStoryIDs[s] = TheList
                 /\ ids = delivered
                 /\ delivered \subseteq Range(FirstK(TheList))
                 /\ newStoryIDs'[s] = Filter(TheList, delivered)
                 /\ Range(newStoryIDs'[s]) =
                        BeyondK(TheList) \cup (Range(FirstK(TheList)) \ delivered)
                 /\ Len(TheList) > initialStoriesLimit =>
                        /\ newStoryIDs'[s] # <<>>
                        /\ out'[s] = <<>>
                        /\ pc'[s] = "deltaLoop"
                        /\ storiesToFetch'[s] = FirstM(newStoryIDs'[s])
                 /\ newStoryIDs'[s] = <<>> => out'[s] = <<Msg("no-new-data")>>
          /\ InCycle(s)' => Range(TheList) \subseteq ids'
          /\ (DiffStep(s) /\ Range(TheList) \subseteq ids) =>
                 /\ newStoryIDs'[s] = <<>>
                 /\ out'[s] = <<Msg("no-new-data")>>
                 /\ pc'[s] = "deltaRet"
                 /\ ids' = ids
          /\ (DiffStep(s) /\ ~NoneReported) => Range(TheList) \subseteq ids]_vars

\* the list is longer than initialStoriesLimit; a first cycle has had in its
\* delta a rank beyond initialStoriesLimit and one of the first that the
\* initial phase had not sent, and a later cycle on the same list is
\* returning with its one no-new-data message
C20_Witness ==
    \E s \in Sessions :
        /\ InCycle(s)
        /\ pc[s] = "deltaRet"
        /\ out[s] = <<Msg("no-new-data")>>
        /\ currentStoryIDs[s] = TheList
        /\ Len(TheList) > initialStoriesLimit
        /\ \E i \in BeyondK(TheList) : reportedBy[i] = s
        /\ \E i \in Range(FirstK(TheList)) : reportedBy[i] = s /\ i \notin delivered
        /\ \E i \in Range(FirstK(TheList)) : i \in delivered

====
